---- MODULE Spec2Model ----
(***************************************************************************)
(* PieTracker backend (backend/main.py): identity resolution, per-user     *)
(* category namespaces, credentials, password reset and the admin routes.  *)
(* Every request handler is an `async def` without an await in its body,   *)
(* so a handler runs to completion on the event loop: one action each.     *)
(***************************************************************************)
EXTENDS Integers, Sequences, FiniteSets, TLC

(***************************************************************************)
(* Bounds of the model                                                     *)
(***************************************************************************)
MaxUsers == 2          \* uuid4 user ids handed out by signup
MaxTicks == 2          \* clock advances
MaxTenancyTicks == 1   \* clock advances while the tenant endpoints are exercised
MaxIssued == 2         \* access tokens remembered by clients
MaxResetTokens == 2    \* reset tokens minted by forgot_password
MaxExpenses == 1       \* expenses created

(***************************************************************************)
(* Program constants                                                       *)
(***************************************************************************)
ACCESS_TOKEN_EXPIRE_MINUTES == 60 * 24 * 7
RESET_TOKEN_EXPIRE_MINUTES == 15
MAX_PASSWORD_LENGTH == 256
MIN_PASSWORD_LENGTH == 6
DEFAULT_CATEGORIES == {"Food", "Transportation", "Shopping", "Entertainment"}
LEGACY_KEY == "__legacy__"
ANON_USER == "public-anon-user"
ADMIN_USER_ID == "admin-super-user"
ADMIN_EMAIL == "admin@pietracker.com"
DEFAULT_COLOR == "#a8b5a0"

\* last_login of a record that never logged in (Python None)
NoTime == -1

(***************************************************************************)
(* Strings: str.lower() and str.strip() on the strings the model uses      *)
(***************************************************************************)
lower(s) ==
    CASE s = "Bearer" -> "bearer"
      [] s = "BEARER" -> "bearer"
      [] s = "Basic" -> "basic"
      [] s = "Alice" -> "alice"
      [] s = "Bob" -> "bob"
      [] s = "ADMIN" -> "admin"
      [] s = "Alice@X.com" -> "alice@x.com"
      [] s = "Bob@X.com" -> "bob@x.com"
      [] s = "Admin@PieTracker.com" -> "admin@pietracker.com"
      [] OTHER -> s

strip(s) ==
    CASE s = "  " -> ""
      [] s = " test-user-2 " -> "test-user-2"
      [] s = " Pets " -> "Pets"
      [] s = " alice " -> "alice"
      [] OTHER -> s

\* str(uuid.uuid4()): the n-th fresh identifier
UUIDS == <<"uuid-1", "uuid-2", "uuid-3", "uuid-4", "uuid-5", "uuid-6">>
uuid4(n) == UUIDS[n]

(***************************************************************************)
(* Dictionaries                                                            *)
(***************************************************************************)
EmptyMap == [k \in {} |-> ""]
Put(f, k, v) == [x \in (DOMAIN f) \cup {k} |-> IF x = k THEN v ELSE f[x]]
Del(f, k) == [x \in (DOMAIN f) \ {k} |-> f[x]]

\* Optional[str] request header
Absent == [present |-> FALSE, value |-> ""]
Some(s) == [present |-> TRUE, value |-> s]

(***************************************************************************)
(* State                                                                   *)
(***************************************************************************)
VARIABLES
    now,                    \* datetime.utcnow(), in minutes
    ticks,                  \* clock advances so far
    users_db,               \* id -> user record
    users_keys,             \* the keys of users_db in dict (insertion) order
    users_file,             \* users.json
    categories_db,          \* user id -> (category name -> color)
    categories_file,        \* categories.json
    expenses_db,            \* list of expense records
    expenses_file,          \* expenses.json
    PASSWORD_RESET_TOKENS,  \* token -> [user_id, exp]
    issued,                 \* access tokens signed by this server that clients hold
    n_users,                \* uuid4 user ids drawn so far
    n_resets,               \* uuid4 reset tokens drawn so far
    n_expenses,             \* uuid4 expense ids drawn so far
    resp                    \* the last request and its response

vars == <<now, ticks, users_db, users_keys, users_file, categories_db, categories_file,
          expenses_db, expenses_file, PASSWORD_RESET_TOKENS, issued,
          n_users, n_resets, n_expenses, resp>>

(***************************************************************************)
(* Token Service: python-jose jwt.encode / jwt.decode with SECRET_KEY      *)
(***************************************************************************)
\* a token as a client presents it: sig is "ok" only for tokens this server signed
Jwt(sub, exp, sig) == [sub |-> sub, exp |-> exp, sig |-> sig]
GarbageToken == Jwt("", 0, "malformed")

\* variant: the subject is left out of the signed claims
create_access_token_no_sub(sub, t) == Jwt("", t + ACCESS_TOKEN_EXPIRE_MINUTES, "ok")

create_access_token(sub, t) == Jwt(sub, t + ACCESS_TOKEN_EXPIRE_MINUTES, "ok")

\* variant: a token is turned away from the minute of its expiry on
jwt_decode_ok_strict(token, t) == token.sig = "ok" /\ t < token.exp

\* jwt.decode raises JWTError on a bad signature, a malformed token or exp in the past
jwt_decode_ok(token, t) == token.sig = "ok" /\ ~(token.exp < t)

\* Authorization header: absent, or "<scheme> <token>"
NoAuth == [present |-> FALSE, scheme |-> "", token |-> GarbageToken]
Auth(scheme, token) == [present |-> TRUE, scheme |-> scheme, token |-> token]

starts_with_bearer(authorization) ==
    authorization.present /\ lower(authorization.scheme) = "bearer"

(***************************************************************************)
(* Identity Resolver                                                       *)
(***************************************************************************)
\* variant: the legacy header is consulted before the bearer token
get_user_id_header_first(x_user_id, authorization, t) ==
    IF x_user_id.present /\ strip(x_user_id.value) # ""
    THEN strip(x_user_id.value)
    ELSE IF /\ starts_with_bearer(authorization)
            /\ jwt_decode_ok(authorization.token, t)
            /\ strip(authorization.token.sub) # ""
         THEN strip(authorization.token.sub)
         ELSE ANON_USER

\* variant: the header value is used as it came, without strip()
get_user_id_verbatim(x_user_id, authorization, t) ==
    IF /\ starts_with_bearer(authorization)
       /\ jwt_decode_ok(authorization.token, t)
       /\ strip(authorization.token.sub) # ""
    THEN strip(authorization.token.sub)
    ELSE IF x_user_id.present /\ x_user_id.value # ""
         THEN x_user_id.value
         ELSE ANON_USER

get_user_id(x_user_id, authorization, t) ==
    IF /\ starts_with_bearer(authorization)
       /\ jwt_decode_ok(authorization.token, t)
       /\ strip(authorization.token.sub) # ""
    THEN strip(authorization.token.sub)
    ELSE IF x_user_id.present /\ strip(x_user_id.value) # ""
         THEN strip(x_user_id.value)
         ELSE ANON_USER

(***************************************************************************)
(* categories.json: json.dump / json.load of categories_db                 *)
(***************************************************************************)
JStr(s) == [kind |-> "str", str |-> s, map |-> EmptyMap]
JMap(m) == [kind |-> "dict", str |-> "", map |-> m]
NoFile == [exists |-> FALSE, data |-> EmptyMap]
File(d) == [exists |-> TRUE, data |-> d]

starts_with_hash(s) == s \in {"#111", "#222", DEFAULT_COLOR}

\* variant: a namespace without entries is left out of the document
dump_categories_skip_empty(db) ==
    File([k \in { u \in DOMAIN db : db[u] # EmptyMap } |-> JMap(db[k])])

dump_categories(db) == File([k \in DOMAIN db |-> JMap(db[k])])

load_categories(file) ==
    IF ~file.exists THEN EmptyMap
    ELSE IF \A k \in DOMAIN file.data :
                file.data[k].kind = "str" /\ starts_with_hash(file.data[k].str)
         THEN [x \in {LEGACY_KEY} |-> [k \in DOMAIN file.data |-> file.data[k].str]]
         ELSE [k \in DOMAIN file.data |-> file.data[k].map]

\* categories.json as found at startup: missing, or the flat legacy format
LegacyMaps == { [k \in {"Food", "Pets"} |-> IF k = "Food" THEN "#111" ELSE "#222"] }
InitialCategoryFiles ==
    {NoFile} \cup { File([k \in DOMAIN m |-> JStr(m[k])]) : m \in LegacyMaps }

(***************************************************************************)
(* Category Namespace Migrator and per-user category store                 *)
(* Each operator returns the new <<categories_db, categories_file>>.       *)
(***************************************************************************)
\* variant: an empty namespace counts as "has none yet" and is cloned again
ensure_user_category_init_reclone(db, file, user_id) ==
    IF user_id \in DOMAIN db /\ db[user_id] # EmptyMap THEN <<db, file>>
    ELSE IF LEGACY_KEY \in DOMAIN db
         THEN LET db2 == Put(db, user_id, db[LEGACY_KEY])
              IN <<db2, dump_categories(db2)>>
         ELSE <<db, file>>

\* variant: the clone is made in memory but save_categories() is not called
ensure_user_category_init_unsaved(db, file, user_id) ==
    IF user_id \in DOMAIN db THEN <<db, file>>
    ELSE IF LEGACY_KEY \in DOMAIN db
         THEN <<Put(db, user_id, db[LEGACY_KEY]), file>>
         ELSE <<db, file>>

ensure_user_category_init(db, file, user_id) ==
    IF user_id \in DOMAIN db THEN <<db, file>>
    ELSE IF LEGACY_KEY \in DOMAIN db
         THEN LET db2 == Put(db, user_id, db[LEGACY_KEY])
              IN <<db2, dump_categories(db2)>>
         ELSE <<db, file>>

\* categories_db.get(user_id, {}) after ensure_user_category_init
get_user_custom_categories(db, user_id) ==
    IF user_id \in DOMAIN db THEN db[user_id] ELSE EmptyMap

set_user_category(db, user_id, name, color) ==
    LET db1 == IF user_id \in DOMAIN db THEN db ELSE Put(db, user_id, EmptyMap)
        db2 == Put(db1, user_id, Put(db1[user_id], name, color))
    IN <<db2, dump_categories(db2)>>

\* variant: the name is removed from every namespace that has it
delete_user_category_everywhere(db, file, user_id, name) ==
    IF user_id \in DOMAIN db /\ name \in DOMAIN db[user_id]
    THEN LET db2 == [k \in DOMAIN db |-> IF name \in DOMAIN db[k] THEN Del(db[k], name)
                                         ELSE db[k]]
         IN <<db2, dump_categories(db2)>>
    ELSE <<db, file>>

delete_user_category(db, file, user_id, name) ==
    IF user_id \in DOMAIN db /\ name \in DOMAIN db[user_id]
    THEN LET db2 == Put(db, user_id, Del(db[user_id], name))
         IN <<db2, dump_categories(db2)>>
    ELSE <<db, file>>

SeqToSet(s) == { s[i] : i \in DOMAIN s }

(***************************************************************************)
(* Credential Store and Password Hasher                                    *)
(***************************************************************************)
\* key a user record does not have (the "name" key of records made by signup)
MissingKey == "<missing>"

\* len(password)
len(p) ==
    CASE p = "" -> 0
      [] p = "abc" -> 3
      [] p = "admin123" -> 8
      [] p = "x257" -> 257
      [] OTHER -> 9

\* pwd_context.hash / pwd_context.verify (pbkdf2_sha256): one-way, verify
\* accepts exactly the plaintext that was hashed
hash_password(password) == <<"pbkdf2_sha256", password>>
verify_password(password, hashed) == hashed = hash_password(password)

\* next(...) over users_db.values(): the first element of a list of ids, as
\* <<id>>, or <<>> for None
First(hits) == IF hits = <<>> THEN <<>> ELSE <<hits[1]>>

\* users_db is iterated in dict (insertion) order, which users_keys records
get_user_by_email(db, keys, email) ==
    First(SelectSeq(keys, LAMBDA k : db[k].email = strip(lower(email))))

get_user_by_username(db, keys, username) ==
    First(SelectSeq(keys,
            LAMBDA k : (IF db[k].username = MissingKey THEN "" ELSE lower(db[k].username))
                       = strip(lower(username))))

authenticate_user(db, keys, username, password) ==
    LET found == get_user_by_username(db, keys, username)
    IN IF found = <<>> THEN <<>>
       ELSE IF ~verify_password(password, db[found[1]].password_hash) THEN <<>>
       ELSE found

is_admin_user(user) ==
    \/ user.role = "admin"
    \/ user.role = "super_admin"
    \/ user.email = ADMIN_EMAIL
    \/ user.id = ADMIN_USER_ID

\* variant: the expiry of the token is not looked at
get_current_user_status_no_expiry(db, authorization, t) ==
    IF ~(authorization.present /\ lower(authorization.scheme) = "bearer") THEN 401
    ELSE IF authorization.token.sig # "ok" THEN 401
    ELSE IF authorization.token.sub \notin DOMAIN db THEN 401
    ELSE IF ~db[authorization.token.sub].is_active THEN 403
    ELSE 200

\* get_current_user behind OAuth2PasswordBearer: the status it ends with
\* (200 = the user record is returned) 
get_current_user_status(db, authorization, t) ==
    IF ~(authorization.present /\ lower(authorization.scheme) = "bearer") THEN 401
    ELSE IF ~jwt_decode_ok(authorization.token, t) THEN 401
    ELSE IF authorization.token.sub \notin DOMAIN db THEN 401
    ELSE IF ~db[authorization.token.sub].is_active THEN 403
    ELSE 200

(***************************************************************************)
(* Initial state: the process has just started                             *)
(***************************************************************************)
NoToken == Jwt("", 0, "none")

\* the request (its headers and main argument) and what it was answered:
\* uid is the tenant id or user id the handler worked as, token the access
\* token in the body, val the rest of the body
Response(op, status, detail, uid, x_user_id, authorization, arg, token, val) ==
    [op |-> op, status |-> status, detail |-> detail, uid |-> uid,
     x_user_id |-> x_user_id, authorization |-> authorization, arg |-> arg,
     token |-> token, val |-> val]

Idle == Response("idle", 0, "", "", Absent, NoAuth, "", NoToken, {})

Init ==
    /\ now = 0
    /\ ticks = 0
    /\ users_db = EmptyMap
    /\ users_keys = <<>>
    /\ users_file = EmptyMap
    /\ \E f \in InitialCategoryFiles :
          /\ categories_file = f
          /\ categories_db = load_categories(f)
    /\ expenses_db = <<>>
    /\ expenses_file = <<>>
    /\ PASSWORD_RESET_TOKENS = EmptyMap
    /\ issued = {}
    /\ n_users = 0
    /\ n_resets = 0
    /\ n_expenses = 0
    /\ resp = Idle

\* a client keeps a token it was handed (clients hold at most MaxIssued)
Remember(token) ==
    IF Cardinality(issued) < MaxIssued THEN issued \cup {token} ELSE issued

\* time passes between requests
Tick(d, max) ==
    /\ ticks < max
    /\ now' = now + d
    /\ ticks' = ticks + 1
    /\ resp' = Idle
    /\ UNCHANGED <<users_db, users_keys, users_file, categories_db, categories_file,
                   expenses_db, expenses_file, PASSWORD_RESET_TOKENS, issued,
                   n_users, n_resets, n_expenses>>


(***************************************************************************)
(* Tenant-scoped endpoints: expenses and categories                        *)
(***************************************************************************)
UsersUnchanged == UNCHANGED <<users_db, users_keys, users_file, PASSWORD_RESET_TOKENS,
                              issued, n_users, n_resets>>
Clock == UNCHANGED <<now, ticks>>

used_categories(expenses, user_id) ==
    { e.category : e \in { x \in SeqToSet(expenses) : x.user_id = user_id /\ x.category # "" } }

\* the list get_categories returns, given categories_db after the migrator ran
all_categories(db, expenses, user_id) ==
    DEFAULT_CATEGORIES \cup used_categories(expenses, user_id)
        \cup DOMAIN get_user_custom_categories(db, user_id)

create_expense(x_user_id, authorization, category, date) ==
    LET user_id == get_user_id(x_user_id, authorization, now)
        new_expense == [id |-> n_expenses + 1, user_id |-> user_id,
                        category |-> category, date |-> date]
    IN /\ n_expenses < MaxExpenses
       /\ n_expenses' = n_expenses + 1
       /\ expenses_db' = Append(expenses_db, new_expense)
       /\ expenses_file' = expenses_db'
       /\ resp' = Response("create_expense", 200, "", user_id, x_user_id,
                           authorization, category, NoToken, new_expense)
       /\ UNCHANGED <<categories_db, categories_file>>
       /\ UsersUnchanged /\ Clock

get_expenses(x_user_id, authorization) ==
    LET user_id == get_user_id(x_user_id, authorization, now)
    IN /\ resp' = Response("get_expenses", 200, "", user_id, x_user_id, authorization,
                           "", NoToken,
                           SelectSeq(expenses_db, LAMBDA e : e.user_id = user_id))
       /\ UNCHANGED <<categories_db, categories_file, expenses_db, expenses_file,
                      n_expenses>>
       /\ UsersUnchanged /\ Clock

\* f"{year:04d}-{month:02d}"
month_str(year, month) ==
    CASE year = 2025 /\ month = 1 -> "2025-01"
      [] year = 2025 /\ month = 2 -> "2025-02"
      [] OTHER -> "0000-00"

\* expense["date"].startswith(prefix), for the dates the model uses
date_startswith(date, prefix) ==
    \/ date = prefix
    \/ date = "2025-01-15" /\ prefix = "2025-01"
    \/ date = "2025-02-03" /\ prefix = "2025-02"

get_expenses_by_month(x_user_id, authorization, year, month) ==
    LET user_id == get_user_id(x_user_id, authorization, now)
    IN /\ resp' = Response("get_expenses_by_month", 200, "", user_id, x_user_id,
                           authorization, <<year, month>>, NoToken,
                           SelectSeq(expenses_db,
                               LAMBDA e : /\ e.user_id = user_id
                                          /\ date_startswith(e.date, month_str(year, month))))
       /\ UNCHANGED <<categories_db, categories_file, expenses_db, expenses_file,
                      n_expenses>>
       /\ UsersUnchanged /\ Clock

\* variant: the expense is picked by its id alone
expense_to_delete_any_owner(e, user_id, expense_id) == e.id = expense_id

\* exp.get("user_id") == user_id and exp["id"] == expense_id
expense_to_delete(e, user_id, expense_id) == e.user_id = user_id /\ e.id = expense_id

delete_expense(x_user_id, authorization, expense_id) ==
    LET user_id == get_user_id(x_user_id, authorization, now)
        kept == SelectSeq(expenses_db,
                    LAMBDA e : ~expense_to_delete(e, user_id, expense_id))
    IN /\ expenses_db' = kept
       /\ expenses_file' = IF Len(kept) # Len(expenses_db) THEN kept ELSE expenses_file
       /\ resp' = Response("delete_expense", 200, "Expense deleted successfully",
                           user_id, x_user_id, authorization, expense_id, NoToken, {})
       /\ UNCHANGED <<categories_db, categories_file, n_expenses>>
       /\ UsersUnchanged /\ Clock

get_categories(x_user_id, authorization) ==
    LET user_id == get_user_id(x_user_id, authorization, now)
        st == ensure_user_category_init(categories_db, categories_file, user_id)
    IN /\ categories_db' = st[1]
       /\ categories_file' = st[2]
       /\ resp' = Response("get_categories", 200, "", user_id, x_user_id,
                           authorization, "", NoToken,
                           all_categories(st[1], expenses_db, user_id))
       /\ UNCHANGED <<expenses_db, expenses_file, n_expenses>>
       /\ UsersUnchanged /\ Clock

get_category_colors(x_user_id, authorization) ==
    LET user_id == get_user_id(x_user_id, authorization, now)
        st == ensure_user_category_init(categories_db, categories_file, user_id)
    IN /\ categories_db' = st[1]
       /\ categories_file' = st[2]
       /\ resp' = Response("get_category_colors", 200, "", user_id, x_user_id,
                           authorization, "", NoToken,
                           get_user_custom_categories(st[1], user_id))
       /\ UNCHANGED <<expenses_db, expenses_file, n_expenses>>
       /\ UsersUnchanged /\ Clock

\* category_data = {"name": name_in, "color": color_in}; color_in may be missing
add_category(x_user_id, authorization, name_in, color_in) ==
    LET user_id == get_user_id(x_user_id, authorization, now)
        name == strip(name_in)
        color == IF color_in.present THEN color_in.value ELSE DEFAULT_COLOR
        st == ensure_user_category_init(categories_db, categories_file, user_id)
        existing == all_categories(st[1], expenses_db, user_id)
        done == set_user_category(st[1], user_id, name, color)
    IN /\ IF name = ""
          THEN /\ UNCHANGED <<categories_db, categories_file>>
               /\ resp' = Response("add_category", 400, "Category name is required",
                                   user_id, x_user_id, authorization, name_in, NoToken, {})
          ELSE IF name \in existing
          THEN /\ categories_db' = st[1]
               /\ categories_file' = st[2]
               /\ resp' = Response("add_category", 400, "already exists",
                                   user_id, x_user_id, authorization, name_in, NoToken, {})
          ELSE /\ categories_db' = done[1]
               /\ categories_file' = done[2]
               /\ resp' = Response("add_category", 200, "added successfully",
                                   user_id, x_user_id, authorization, name_in, NoToken,
                                   <<name, color>>)
       /\ UNCHANGED <<expenses_db, expenses_file, n_expenses>>
       /\ UsersUnchanged /\ Clock

delete_category(x_user_id, authorization, category_name) ==
    LET user_id == get_user_id(x_user_id, authorization, now)
        st == ensure_user_category_init(categories_db, categories_file, user_id)
        existing_custom == get_user_custom_categories(st[1], user_id)
        done == delete_user_category(st[1], st[2], user_id, category_name)
        kept == SelectSeq(expenses_db,
                    LAMBDA e : ~(e.user_id = user_id /\ e.category = category_name))
        removed == Len(expenses_db) - Len(kept)
    IN /\ IF category_name \in DEFAULT_CATEGORIES
          THEN /\ UNCHANGED <<categories_db, categories_file, expenses_db, expenses_file>>
               /\ resp' = Response("delete_category", 400, "Cannot delete default category",
                                   user_id, x_user_id, authorization, category_name,
                                   NoToken, {})
          ELSE IF category_name \notin DOMAIN existing_custom
          THEN /\ categories_db' = st[1]
               /\ categories_file' = st[2]
               /\ UNCHANGED <<expenses_db, expenses_file>>
               /\ resp' = Response("delete_category", 200, "not found for user",
                                   user_id, x_user_id, authorization, category_name,
                                   NoToken, {})
          ELSE /\ categories_db' = done[1]
               /\ categories_file' = done[2]
               /\ expenses_db' = kept
               /\ expenses_file' = IF removed # 0 THEN kept ELSE expenses_file
               /\ resp' = Response("delete_category", 200, "deleted for user",
                                   user_id, x_user_id, authorization, category_name,
                                   NoToken, removed)
       /\ UNCHANGED n_expenses
       /\ UsersUnchanged /\ Clock


(***************************************************************************)
(* Auth endpoints                                                          *)
(***************************************************************************)
TenancyUnchanged == UNCHANGED <<categories_db, categories_file, expenses_db,
                                expenses_file, n_expenses>>

\* users_db[user_id] = record: a new key goes to the end of the dict
Upsert(keys, user_id) == IF user_id \in SeqToSet(keys) THEN keys ELSE Append(keys, user_id)

\* pydantic Field(min_length, max_length) on a password: 422 before the handler runs
password_field_ok(password, min_length) ==
    len(password) >= min_length /\ len(password) <= MAX_PASSWORD_LENGTH

signup(username_in, email_in, password) ==
    LET email == strip(lower(email_in))
        username == strip(lower(username_in))
        user_id == uuid4(n_users + 1)
        new_user == [id |-> user_id, username |-> username, email |-> email,
                     name |-> MissingKey,
                     password_hash |-> hash_password(password),
                     created_at |-> now,
                     role |-> IF email = ADMIN_EMAIL THEN "admin" ELSE "user",
                     is_active |-> TRUE, last_login |-> NoTime]
        token == create_access_token(user_id, now)
        rejected(status, detail) ==
            /\ resp' = Response("signup", status, detail, "", Absent, NoAuth,
                                <<username_in, email_in>>, NoToken, {})
            /\ UNCHANGED <<users_db, users_keys, users_file, issued, n_users>>
    IN /\ IF ~password_field_ok(password, MIN_PASSWORD_LENGTH)
          THEN rejected(422, "validation error")
          ELSE IF get_user_by_email(users_db, users_keys, email) # <<>>
          THEN rejected(400, "Email already registered")
          ELSE IF get_user_by_username(users_db, users_keys, username) # <<>>
          THEN rejected(400, "Username already taken")
          ELSE /\ n_users < MaxUsers
               /\ n_users' = n_users + 1
               /\ users_db' = Put(users_db, user_id, new_user)
               /\ users_keys' = Upsert(users_keys, user_id)
               /\ users_file' = users_db'
               /\ issued' = Remember(token)
               /\ resp' = Response("signup", 200, "Signup successful", user_id, Absent,
                                   NoAuth, <<username_in, email_in>>, token, new_user)
       /\ UNCHANGED <<PASSWORD_RESET_TOKENS, n_resets>>
       /\ TenancyUnchanged /\ Clock

login(username_in, password) ==
    LET username == strip(lower(username_in))
        admin_user == [id |-> ADMIN_USER_ID, username |-> "admin", email |-> ADMIN_EMAIL,
                       name |-> MissingKey,
                       password_hash |-> hash_password("admin123"),
                       created_at |-> now, role |-> "super_admin",
                       is_active |-> TRUE, last_login |-> now]
        found == authenticate_user(users_db, users_keys, username, password)
        user == users_db[found[1]]
        rejected(status, detail) ==
            /\ resp' = Response("login", status, detail, "", Absent, NoAuth,
                                <<username_in, password>>, NoToken, {})
            /\ UNCHANGED <<users_db, users_keys, users_file, issued>>
    IN /\ IF ~password_field_ok(password, 1)
          THEN rejected(422, "validation error")
          ELSE IF username = "admin" /\ password = "admin123"
          THEN /\ users_db' = Put(users_db, ADMIN_USER_ID, admin_user)
               /\ users_keys' = Upsert(users_keys, ADMIN_USER_ID)
               /\ users_file' = users_db'
               /\ issued' = Remember(create_access_token(ADMIN_USER_ID, now))
               /\ resp' = Response("login", 200, "Admin login successful", ADMIN_USER_ID,
                                   Absent, NoAuth, <<username_in, password>>,
                                   create_access_token(ADMIN_USER_ID, now), admin_user)
          ELSE IF found = <<>>
          THEN rejected(401, "Invalid username or password")
          ELSE IF ~user.is_active
          THEN rejected(403, "Account is deactivated")
          ELSE /\ users_db' = Put(users_db, found[1], [user EXCEPT !.last_login = now])
               /\ users_keys' = users_keys
               /\ users_file' = users_db'
               /\ issued' = Remember(create_access_token(user.id, now))
               /\ resp' = Response("login", 200, "Login successful", user.id,
                                   Absent, NoAuth, <<username_in, password>>,
                                   create_access_token(user.id, now), users_db'[found[1]])
       /\ UNCHANGED <<PASSWORD_RESET_TOKENS, n_users, n_resets>>
       /\ TenancyUnchanged /\ Clock

me(authorization) ==
    LET token == authorization.token
        answer(status, detail, uid) ==
            resp' = Response("me", status, detail, uid, Absent, authorization, "",
                             NoToken, {})
    IN /\ IF ~starts_with_bearer(authorization)
          THEN answer(401, "Not authenticated", "")
          ELSE IF ~jwt_decode_ok(token, now)
          THEN answer(401, "Invalid token", "")
          ELSE IF token.sub = ""
          THEN answer(401, "Invalid token", "")
          ELSE IF token.sub \notin DOMAIN users_db
          THEN answer(401, "User not found", "")
          ELSE IF users_db[token.sub].name = MissingKey
          THEN answer(500, "KeyError: 'name'", token.sub)
          ELSE answer(200, "", token.sub)
       /\ UNCHANGED <<users_db, users_keys, users_file, PASSWORD_RESET_TOKENS, issued,
                      n_users, n_resets>>
       /\ TenancyUnchanged /\ Clock

(***************************************************************************)
(* Password-Reset Flow                                                     *)
(***************************************************************************)
GENERIC_RESET_MESSAGE == "If the email exists, a reset link has been sent."

\* variant: an unknown email is answered 404
forgot_password_answer_revealing(found) ==
    IF found = <<>> THEN [status |-> 404, detail |-> "User not found"]
    ELSE [status |-> 200, detail |-> GENERIC_RESET_MESSAGE]

\* the return statement, the same whether or not a user was found
forgot_password_answer(found) == [status |-> 200, detail |-> GENERIC_RESET_MESSAGE]

forgot_password(email_in) ==
    LET email == strip(lower(email_in))
        found == get_user_by_email(users_db, users_keys, email)
        token == n_resets + 1
    IN /\ IF found # <<>>
          THEN /\ n_resets < MaxResetTokens
               /\ n_resets' = n_resets + 1
               /\ PASSWORD_RESET_TOKENS' =
                     Put(PASSWORD_RESET_TOKENS, token,
                         [user_id |-> users_db[found[1]].id,
                          exp |-> now + RESET_TOKEN_EXPIRE_MINUTES])
          ELSE UNCHANGED <<PASSWORD_RESET_TOKENS, n_resets>>
       /\ resp' = Response("forgot_password", forgot_password_answer(found).status,
                           forgot_password_answer(found).detail, "", Absent,
                           NoAuth, email_in, NoToken, {})
       /\ UNCHANGED <<users_db, users_keys, users_file, issued, n_users>>
       /\ TenancyUnchanged /\ Clock

\* variant: the comparison with the stored expiry is reversed
reset_token_expired_reversed(t, exp) == t < exp

\* datetime.utcnow() > exp_dt
reset_token_expired(t, exp) == t > exp

\* variant: the token of a vanished user is left in the store
drop_orphan_token_kept(tokens, token) == tokens

\* del PASSWORD_RESET_TOKENS[req.token] when the user no longer exists
drop_orphan_token(tokens, token) == Del(tokens, token)

\* variant: a successful reset also drops the user's other tokens
drop_used_token_with_siblings(tokens, token) ==
    [t \in { x \in DOMAIN tokens : tokens[x].user_id # tokens[token].user_id } |-> tokens[t]]

\* variant: the token survives a successful reset
drop_used_token_kept(tokens, token) == tokens

\* del PASSWORD_RESET_TOKENS[req.token] after the new password is saved
drop_used_token(tokens, token) == Del(tokens, token)

reset_password(token, new_password) ==
    LET record == PASSWORD_RESET_TOKENS[token]
        user_id == record.user_id
        answer(status, detail, uid) ==
            resp' = Response("reset_password", status, detail, uid, Absent, NoAuth,
                             token, NoToken, new_password)
    IN /\ IF ~password_field_ok(new_password, MIN_PASSWORD_LENGTH)
          THEN /\ answer(422, "validation error", "")
               /\ UNCHANGED <<PASSWORD_RESET_TOKENS, users_db, users_file>>
          ELSE IF token \notin DOMAIN PASSWORD_RESET_TOKENS
          THEN /\ answer(400, "Invalid or expired token", "")
               /\ UNCHANGED <<PASSWORD_RESET_TOKENS, users_db, users_file>>
          ELSE IF reset_token_expired(now, record.exp)
          THEN \* the HTTPException raised inside the try block is caught by
               \* `except Exception`, whose `del` of the already deleted key
               \* raises KeyError
               /\ PASSWORD_RESET_TOKENS' = Del(PASSWORD_RESET_TOKENS, token)
               /\ answer(500, "KeyError", "")
               /\ UNCHANGED <<users_db, users_file>>
          ELSE IF user_id \notin DOMAIN users_db
          THEN /\ PASSWORD_RESET_TOKENS' = drop_orphan_token(PASSWORD_RESET_TOKENS, token)
               /\ answer(400, "Invalid or expired token", "")
               /\ UNCHANGED <<users_db, users_file>>
          ELSE /\ users_db' = Put(users_db, user_id,
                     [users_db[user_id] EXCEPT !.password_hash = hash_password(new_password)])
               /\ users_file' = users_db'
               /\ PASSWORD_RESET_TOKENS' = drop_used_token(PASSWORD_RESET_TOKENS, token)
               /\ answer(200, "Password reset successful. You may now log in.", user_id)
       /\ UNCHANGED <<users_keys, issued, n_users, n_resets>>
       /\ TenancyUnchanged /\ Clock


(***************************************************************************)
(* Admin user management endpoints                                         *)
(***************************************************************************)
\* Depends(get_current_user), then the is_admin_user check every admin route
\* starts with: the status the route ends with before doing anything (200 = go on)
\* variant: any authenticated active user passes
admin_gate_any_user(db, authorization, t) ==
    get_current_user_status(db, authorization, t)

admin_gate(db, authorization, t) ==
    LET status == get_current_user_status(db, authorization, t)
    IN IF status # 200 THEN status
       ELSE IF ~is_admin_user(db[authorization.token.sub]) THEN 403
       ELSE 200

gate_detail(status) ==
    CASE status = 401 -> "Could not validate credentials"
      [] status = 403 -> "Forbidden"
      [] OTHER -> ""

AdminAnswer(op, status, detail, authorization, arg, val) ==
    resp' = Response(op, status, detail,
                     IF status \in {401, 403} THEN "" ELSE authorization.token.sub,
                     Absent, authorization, arg, NoToken, val)

AdminFrame == /\ UNCHANGED <<PASSWORD_RESET_TOKENS, issued, n_users, n_resets>>
              /\ TenancyUnchanged /\ Clock

list_all_users(authorization) ==
    LET gate == admin_gate(users_db, authorization, now)
    IN /\ IF gate # 200
          THEN AdminAnswer("list_all_users", gate, gate_detail(gate), authorization, "", {})
          ELSE AdminAnswer("list_all_users", 200, "", authorization, "",
                           [k \in DOMAIN users_db |-> users_db[k]])
       /\ UNCHANGED <<users_db, users_keys, users_file>>
       /\ AdminFrame

get_admin_stats(authorization) ==
    LET gate == admin_gate(users_db, authorization, now)
        active == { k \in DOMAIN users_db : users_db[k].is_active }
    IN /\ IF gate # 200
          THEN AdminAnswer("get_admin_stats", gate, gate_detail(gate), authorization, "", {})
          ELSE AdminAnswer("get_admin_stats", 200, "", authorization, "",
                           [total_users |-> Cardinality(DOMAIN users_db),
                            active_users |-> Cardinality(active),
                            inactive_users |-> Cardinality(DOMAIN users_db)
                                                - Cardinality(active)])
       /\ UNCHANGED <<users_db, users_keys, users_file>>
       /\ AdminFrame

\* UpdateUserRequest: every field is Optional
NoBool == [present |-> FALSE, value |-> FALSE]
SomeBool(b) == [present |-> TRUE, value |-> b]
UpdateUserRequest(username, email, password, role, is_active) ==
    [username |-> username, email |-> email, password |-> password, role |-> role,
     is_active |-> is_active]

update_user(authorization, user_id, update_data) ==
    LET gate == admin_gate(users_db, authorization, now)
        user == users_db[user_id]
        others == (DOMAIN users_db) \ {user_id}
        new_username == strip(lower(update_data.username.value))
        username_taken ==
            \E uid \in others :
                (IF users_db[uid].username = MissingKey THEN ""
                 ELSE lower(users_db[uid].username)) = new_username
        u1 == IF update_data.username.present
              THEN [user EXCEPT !.username = new_username] ELSE user
        new_email == strip(lower(update_data.email.value))
        email_taken == \E uid \in others : users_db[uid].email = new_email
        u2 == IF update_data.email.present THEN [u1 EXCEPT !.email = new_email] ELSE u1
        u3 == IF update_data.password.present
              THEN [u2 EXCEPT !.password_hash = hash_password(update_data.password.value)]
              ELSE u2
        u4 == IF update_data.role.present
              THEN [u3 EXCEPT !.role = update_data.role.value] ELSE u3
        u5 == IF update_data.is_active.present
              THEN [u4 EXCEPT !.is_active = update_data.is_active.value] ELSE u4
        answer(status, detail, val) ==
            AdminAnswer("update_user", status, detail, authorization, user_id, val)
    IN /\ IF gate # 200
          THEN /\ answer(gate, gate_detail(gate), {})
               /\ UNCHANGED <<users_db, users_file>>
          ELSE IF user_id \notin DOMAIN users_db
          THEN /\ answer(404, "User not found", {})
               /\ UNCHANGED <<users_db, users_file>>
          ELSE IF update_data.username.present /\ username_taken
          THEN /\ answer(400, "Username already exists", {})
               /\ UNCHANGED <<users_db, users_file>>
          ELSE IF update_data.email.present /\ email_taken
          THEN \* user["username"] was already assigned; nothing is saved
               /\ answer(400, "Email already exists", {})
               /\ users_db' = Put(users_db, user_id, u1)
               /\ UNCHANGED users_file
          ELSE /\ answer(200, "updated successfully", u5)
               /\ users_db' = Put(users_db, user_id, u5)
               /\ users_file' = users_db'
       /\ UNCHANGED users_keys
       /\ AdminFrame

set_active(op, authorization, user_id, flag) ==
    LET gate == admin_gate(users_db, authorization, now)
    IN /\ IF gate # 200
          THEN /\ AdminAnswer(op, gate, gate_detail(gate), authorization, user_id, {})
               /\ UNCHANGED <<users_db, users_file>>
          ELSE IF user_id \notin DOMAIN users_db
          THEN /\ AdminAnswer(op, 404, "User not found", authorization, user_id, {})
               /\ UNCHANGED <<users_db, users_file>>
          ELSE /\ users_db' = Put(users_db, user_id,
                                  [users_db[user_id] EXCEPT !.is_active = flag])
               /\ users_file' = users_db'
               /\ AdminAnswer(op, 200, "", authorization, user_id, {})
       /\ UNCHANGED users_keys
       /\ AdminFrame

deactivate_user(authorization, user_id) ==
    set_active("deactivate_user", authorization, user_id, FALSE)

activate_user(authorization, user_id) ==
    set_active("activate_user", authorization, user_id, TRUE)

\* the per-user files "<id>_expenses.json" and "<id>_categories.json" the handler
\* removes are never written by the server; expenses_db and categories_db stay
delete_user(authorization, user_id) ==
    LET gate == admin_gate(users_db, authorization, now)
    IN /\ IF gate # 200
          THEN /\ AdminAnswer("delete_user", gate, gate_detail(gate), authorization,
                              user_id, {})
               /\ UNCHANGED <<users_db, users_keys, users_file>>
          ELSE IF user_id \notin DOMAIN users_db
          THEN /\ AdminAnswer("delete_user", 404, "User not found", authorization,
                              user_id, {})
               /\ UNCHANGED <<users_db, users_keys, users_file>>
          ELSE /\ users_db' = Del(users_db, user_id)
               /\ users_keys' = SelectSeq(users_keys, LAMBDA k : k # user_id)
               /\ users_file' = users_db'
               /\ AdminAnswer("delete_user", 200, "deleted", authorization, user_id, {})
       /\ AdminFrame


(***************************************************************************)
(* Requests during which the data directory cannot be written              *)
(***************************************************************************)
\* what a file holds after a write that raised: open(path, 'w') raised and the
\* file is as it was, or json.dump raised midway and the file is cut short,
\* which the loaders read as no data
failed_save_users(file) == {file, EmptyMap}
failed_save_categories(file) == {file, NoFile}

\* signup when save_users() raises: the record is already in users_db, the
\* exception leaves the handler before a token is made
signup_save_fails(username_in, email_in, password) ==
    LET email == strip(lower(email_in))
        username == strip(lower(username_in))
        user_id == uuid4(n_users + 1)
        new_user == [id |-> user_id, username |-> username, email |-> email,
                     name |-> MissingKey,
                     password_hash |-> hash_password(password),
                     created_at |-> now,
                     role |-> IF email = ADMIN_EMAIL THEN "admin" ELSE "user",
                     is_active |-> TRUE, last_login |-> NoTime]
    IN /\ password_field_ok(password, MIN_PASSWORD_LENGTH)
       /\ get_user_by_email(users_db, users_keys, email) = <<>>
       /\ get_user_by_username(users_db, users_keys, username) = <<>>
       /\ n_users < MaxUsers
       /\ n_users' = n_users + 1
       /\ users_db' = Put(users_db, user_id, new_user)
       /\ users_keys' = Upsert(users_keys, user_id)
       /\ users_file' \in failed_save_users(users_file)
       /\ resp' = Response("signup", 500, "OSError", "", Absent, NoAuth,
                           <<username_in, email_in>>, NoToken, {})
       /\ UNCHANGED <<issued, PASSWORD_RESET_TOKENS, n_resets>>
       /\ TenancyUnchanged /\ Clock

\* add_category when save_categories() raises inside set_user_category: the
\* new entry is already in categories_db
add_category_save_fails(x_user_id, authorization, name_in, color_in) ==
    LET user_id == get_user_id(x_user_id, authorization, now)
        name == strip(name_in)
        color == IF color_in.present THEN color_in.value ELSE DEFAULT_COLOR
        st == ensure_user_category_init(categories_db, categories_file, user_id)
        existing == all_categories(st[1], expenses_db, user_id)
        done == set_user_category(st[1], user_id, name, color)
    IN /\ name # ""
       /\ name \notin existing
       /\ st[1] = categories_db
       /\ categories_db' = done[1]
       /\ categories_file' \in failed_save_categories(categories_file)
       /\ resp' = Response("add_category", 500, "OSError", user_id, x_user_id,
                           authorization, name_in, NoToken, {})
       /\ UNCHANGED <<expenses_db, expenses_file, n_expenses>>
       /\ UsersUnchanged /\ Clock

(***************************************************************************)
(* Requests clients send                                                   *)
(***************************************************************************)
\* a token nobody signed, naming a real subject and far from expiry
ForgedToken == Jwt("uuid-1", 100 * ACCESS_TOKEN_EXPIRE_MINUTES, "bad")

ClientAuths ==
    {NoAuth, Auth("Basic", GarbageToken), Auth("Bearer", GarbageToken),
     Auth("Bearer", ForgedToken)} \cup { Auth("Bearer", t) : t \in issued }

XUserIdHeaders == {Absent, Some("  "), Some(" test-user-2 "), Some(LEGACY_KEY)}

\* <<X-User-Id, Authorization>> of the requests sent to the category endpoints:
\* a legacy header alone, a legacy header with an unusable token, and a legacy
\* header next to each token a client holds
CategoryRequests ==
    {<<Some(" test-user-2 "), NoAuth>>, <<Some(LEGACY_KEY), Auth("Bearer", GarbageToken)>>}
        \cup { <<Some(" test-user-2 "), Auth("Bearer", t)>> : t \in issued }

\* bodies of POST /categories: <<name, color>>, the color may be missing
CategoryBodies == {<<" Pets ", Absent>>, <<"Food", Some("#111")>>, <<"", Some("#111")>>}

(***************************************************************************)
(* Tenancy: identity resolution, categories and expenses                   *)
(***************************************************************************)
TenancyTick == Tick(ACCESS_TOKEN_EXPIRE_MINUTES + 1, MaxTenancyTicks)
TenancySignup == signup("Alice", "Alice@X.com", "Passw0rd!")
TenancyCreateExpense ==
    \E r \in CategoryRequests : create_expense(r[1], r[2], "Pets", "2025-01")
TenancyGetCategories ==
    \E r \in CategoryRequests : get_categories(r[1], r[2])
TenancyGetCategoryColors ==
    \E r \in CategoryRequests : get_category_colors(r[1], r[2])
TenancyAddCategory ==
    \E r \in CategoryRequests, b \in CategoryBodies : add_category(r[1], r[2], b[1], b[2])
TenancyDeleteCategory ==
    \E r \in CategoryRequests, n \in {"Food", "Pets"} : delete_category(r[1], r[2], n)

NextTenancy ==
    \/ TenancyTick
    \/ TenancySignup
    \/ TenancyCreateExpense
    \/ TenancyGetCategories
    \/ TenancyGetCategoryColors
    \/ TenancyAddCategory
    \/ TenancyDeleteCategory

SpecTenancy == Init /\ [][NextTenancy]_vars


(***************************************************************************)
(* Password reset: signup, login, forgot/reset password, account deletion  *)
(***************************************************************************)
ResetTokens == 1 .. MaxResetTokens

ResetTick == Tick(RESET_TOKEN_EXPIRE_MINUTES, MaxTicks)
ResetSignup == signup("Alice", "Alice@X.com", "Passw0rd!")
ResetLogin == login("ADMIN", "admin123")
ResetForgotPassword ==
    \E e \in {"Alice@X.com", "nobody@x.com"} : forgot_password(e)
ResetResetPassword ==
    \E t \in ResetTokens, p \in {"newpass1", "abc"} : reset_password(t, p)
ResetDeleteUser ==
    \E a \in {NoAuth} \cup { Auth("Bearer", t) : t \in issued } : delete_user(a, "uuid-1")

NextReset ==
    \/ ResetTick
    \/ ResetSignup
    \/ ResetLogin
    \/ ResetForgotPassword
    \/ ResetResetPassword
    \/ ResetDeleteUser

\* no categories.json at startup
InitNoFiles == Init /\ categories_file = NoFile

SpecReset == InitNoFiles /\ [][NextReset]_vars


(***************************************************************************)
(* Administration: accounts, access tokens and the /admin routes           *)
(***************************************************************************)
AdminTargets == {"uuid-1", "uuid-9"}

UpdateRequests ==
    { UpdateUserRequest(Some("Bob"), Some("Admin@PieTracker.com"), Absent, Absent, NoBool),
      UpdateUserRequest(Absent, Absent, Some("x257"), Some("admin"), SomeBool(FALSE)) }

AdminTick == Tick(ACCESS_TOKEN_EXPIRE_MINUTES, MaxTicks)
AdminSignup == signup("Alice", "Alice@X.com", "Passw0rd!")
AdminLogin == login("ADMIN", "admin123")
AdminMe == \E a \in ClientAuths : me(a)
AdminListAllUsers == \E a \in ClientAuths : list_all_users(a)
AdminGetAdminStats == \E a \in ClientAuths : get_admin_stats(a)
AdminUpdateUser ==
    \E a \in ClientAuths, u \in AdminTargets, d \in UpdateRequests : update_user(a, u, d)
AdminDeactivateUser == \E a \in ClientAuths, u \in AdminTargets : deactivate_user(a, u)
AdminActivateUser == \E a \in ClientAuths, u \in AdminTargets : activate_user(a, u)
AdminDeleteUser == \E a \in ClientAuths, u \in AdminTargets : delete_user(a, u)

NextAdmin ==
    \/ AdminTick
    \/ AdminSignup
    \/ AdminLogin
    \/ AdminMe
    \/ AdminListAllUsers
    \/ AdminGetAdminStats
    \/ AdminUpdateUser
    \/ AdminDeactivateUser
    \/ AdminActivateUser
    \/ AdminDeleteUser

SpecAdmin == InitNoFiles /\ [][NextAdmin]_vars


(***************************************************************************)
(* Accounts: signup, login, /auth/me and the life cycle of an account      *)
(***************************************************************************)
\* <<username, email>> of the signups: an ordinary user, and a user who picks
\* the reserved administrator's name and address
AccountsSignups == {<<"Alice", "Alice@X.com">>, <<"ADMIN", "Admin@PieTracker.com">>}

\* <<username, password>> of the logins: Alice's own, a wrong password, the
\* reserved administrator's, and a name nobody registered
AccountsCredentials ==
    {<<" alice ", "Passw0rd!">>, <<"Alice", "wrong-pass">>, <<"ADMIN", "admin123">>,
     <<"Bob", "Passw0rd!">>}

AccountsTargets == {"uuid-1", ADMIN_USER_ID}

\* the tokens clients hold, or no header
HeldAuths == {NoAuth} \cup { Auth("Bearer", t) : t \in issued }

AccountsTick == Tick(1, MaxTenancyTicks)
AccountsSignup == \E c \in AccountsSignups : signup(c[1], c[2], "Passw0rd!")
AccountsLogin == \E c \in AccountsCredentials : login(c[1], c[2])
AccountsMe == \E a \in HeldAuths : me(a)
AccountsUpdateUser ==
    \E a \in HeldAuths, u \in AccountsTargets :
        update_user(a, u, UpdateUserRequest(Some("ADMIN"), Absent, Absent, Absent, NoBool))
AccountsDeactivateUser == \E a \in HeldAuths, u \in AccountsTargets : deactivate_user(a, u)
AccountsActivateUser == \E a \in HeldAuths, u \in AccountsTargets : activate_user(a, u)
AccountsDeleteUser == \E a \in HeldAuths, u \in AccountsTargets : delete_user(a, u)

NextAccounts ==
    \/ AccountsTick
    \/ AccountsSignup
    \/ AccountsLogin
    \/ AccountsMe
    \/ AccountsUpdateUser
    \/ AccountsDeactivateUser
    \/ AccountsActivateUser
    \/ AccountsDeleteUser

SpecAccounts == InitNoFiles /\ [][NextAccounts]_vars


(***************************************************************************)
(* Tenant data of accounts that are deactivated or deleted                 *)
(***************************************************************************)
CascadeTick == Tick(ACCESS_TOKEN_EXPIRE_MINUTES + 1, MaxTenancyTicks)
CascadeSignup == signup("Alice", "Alice@X.com", "Passw0rd!")
CascadeLogin == login("ADMIN", "admin123")
CascadeCreateExpense == \E a \in ClientAuths : create_expense(Absent, a, "Pets", "2025-01")
CascadeGetCategories == \E a \in ClientAuths : get_categories(Absent, a)
CascadeAddCategory == \E a \in HeldAuths : add_category(Absent, a, " Pets ", Absent)
CascadeDeactivateUser == \E a \in HeldAuths : deactivate_user(a, "uuid-1")
CascadeDeleteUser == \E a \in HeldAuths : delete_user(a, "uuid-1")

NextCascade ==
    \/ CascadeTick
    \/ CascadeSignup
    \/ CascadeLogin
    \/ CascadeCreateExpense
    \/ CascadeGetCategories
    \/ CascadeAddCategory
    \/ CascadeDeactivateUser
    \/ CascadeDeleteUser

SpecCascade == InitNoFiles /\ [][NextCascade]_vars


(***************************************************************************)
(* Faults: signups and category writes on a disk that may refuse writes    *)
(***************************************************************************)
FaultsSignup == \E c \in AccountsSignups : signup(c[1], c[2], "Passw0rd!")
FaultsSignupSaveFails ==
    \E c \in AccountsSignups : signup_save_fails(c[1], c[2], "Passw0rd!")
FaultsAddCategory ==
    \E r \in CategoryRequests, b \in CategoryBodies : add_category(r[1], r[2], b[1], b[2])
FaultsAddCategorySaveFails ==
    \E r \in CategoryRequests, b \in CategoryBodies :
        add_category_save_fails(r[1], r[2], b[1], b[2])
FaultsDeleteCategory ==
    \E r \in CategoryRequests, n \in {"Food", "Pets"} : delete_category(r[1], r[2], n)

NextFaults ==
    \/ FaultsSignup
    \/ FaultsSignupSaveFails
    \/ FaultsAddCategory
    \/ FaultsAddCategorySaveFails
    \/ FaultsDeleteCategory

SpecFaults == InitNoFiles /\ [][NextFaults]_vars


(***************************************************************************)
(* Expenses of several tenants                                             *)
(***************************************************************************)
\* <<X-User-Id, Authorization>>: a header-named tenant, the anonymous tenant,
\* and the holder of a token who also sends the header
ExpenseRequests ==
    {<<Some(" test-user-2 "), NoAuth>>, <<Absent, NoAuth>>}
        \cup { <<Some(" test-user-2 "), Auth("Bearer", t)>> : t \in issued }

ExpensesSignup == signup("Alice", "Alice@X.com", "Passw0rd!")
ExpensesCreateExpense ==
    \E r \in ExpenseRequests, d \in {"2025-01-15", "2025-02-03"} :
        create_expense(r[1], r[2], "Pets", d)
ExpensesGetExpenses == \E r \in ExpenseRequests : get_expenses(r[1], r[2])
ExpensesGetExpensesByMonth ==
    \E r \in ExpenseRequests : get_expenses_by_month(r[1], r[2], 2025, 1)
ExpensesDeleteExpense ==
    \E r \in ExpenseRequests, i \in 1 .. MaxExpenses + 1 : delete_expense(r[1], r[2], i)
ExpensesAddCategory ==
    \E r \in ExpenseRequests : add_category(r[1], r[2], " Pets ", Absent)
ExpensesDeleteCategory ==
    \E r \in ExpenseRequests : delete_category(r[1], r[2], "Pets")

NextExpenses ==
    \/ ExpensesSignup
    \/ ExpensesCreateExpense
    \/ ExpensesGetExpenses
    \/ ExpensesGetExpensesByMonth
    \/ ExpensesDeleteExpense
    \/ ExpensesAddCategory
    \/ ExpensesDeleteCategory

SpecExpenses == InitNoFiles /\ [][NextExpenses]_vars


(***************************************************************************)
(* Categories: custom, default and used names of several tenants           *)
(***************************************************************************)
CategoriesSignup == signup("Alice", "Alice@X.com", "Passw0rd!")
CategoriesCreateExpense ==
    \E r \in ExpenseRequests : create_expense(r[1], r[2], "Pets", "2025-01-15")
CategoriesGetCategories == \E r \in ExpenseRequests : get_categories(r[1], r[2])
CategoriesAddCategory ==
    \E r \in ExpenseRequests : add_category(r[1], r[2], " Pets ", Absent)
CategoriesDeleteCategory ==
    \E r \in ExpenseRequests, n \in {"Food", "Pets", "Travel"} :
        delete_category(r[1], r[2], n)

NextCategories ==
    \/ CategoriesSignup
    \/ CategoriesCreateExpense
    \/ CategoriesGetCategories
    \/ CategoriesAddCategory
    \/ CategoriesDeleteCategory

SpecCategories == Init /\ [][NextCategories]_vars


(***************************************************************************)
(* Restart: the module-level loads run again on the files left on disk     *)
(***************************************************************************)
\* PASSWORD_RESET_TOKENS = {}, load_users(), load_expenses(), load_categories()
\* at import; the files stay as they are and clients keep their tokens
startup ==
    /\ users_db' = users_file
    /\ users_keys' = SelectSeq(users_keys, LAMBDA k : k \in DOMAIN users_file)
    /\ expenses_db' = expenses_file
    /\ categories_db' = load_categories(categories_file)
    /\ PASSWORD_RESET_TOKENS' = EmptyMap
    /\ resp' = Response("startup", 0, "", "", Absent, NoAuth, "", NoToken, {})
    /\ UNCHANGED <<users_file, expenses_file, categories_file, issued,
                   n_users, n_resets, n_expenses>>
    /\ Clock

\* <<X-User-Id, Authorization>>: two named tenants, the reserved key, anonymous
RestartRequests ==
    {<<Some("test-user-1"), NoAuth>>, <<Some(" test-user-2 "), NoAuth>>,
     <<Some(LEGACY_KEY), NoAuth>>, <<Absent, NoAuth>>}

RestartGetCategories == \E r \in RestartRequests : get_categories(r[1], r[2])
RestartAddCategory ==
    \E r \in RestartRequests, n \in {" Pets ", "Travel"} :
        add_category(r[1], r[2], n, Absent)
RestartDeleteCategory ==
    \E r \in RestartRequests, n \in {"Food", "Pets", "Travel"} :
        delete_category(r[1], r[2], n)

NextRestart ==
    \/ RestartGetCategories
    \/ RestartAddCategory
    \/ RestartDeleteCategory
    \/ startup

SpecRestart == Init /\ [][NextRestart]_vars


(***************************************************************************)
(* admin_cli.py: a second process that reads and rewrites users.json       *)
(* Each command loads the file, changes its own copy and saves it; the     *)
(* server's users_db is not touched.  A command is taken as one step.      *)
(***************************************************************************)
\* find_user_by_email on the loaded document: the first record, in the
\* order of the document, whose email is email.lower().strip()
find_user_by_email(file, keys, email) ==
    LET hits == SelectSeq(keys, LAMBDA k : k \in DOMAIN file
                                            /\ file[k].email = strip(lower(email)))
    IN IF hits = <<>> THEN <<>> ELSE <<hits[1]>>

CliAnswer(op, detail, uid, email) ==
    resp' = Response(op, 0, detail, uid, Absent, NoAuth, email, NoToken, {})

CliFrame == /\ UNCHANGED <<users_db, users_keys, PASSWORD_RESET_TOKENS, issued,
                           n_users, n_resets>>
            /\ TenancyUnchanged /\ Clock

cli_set_active(op, email, flag) ==
    LET found == find_user_by_email(users_file, users_keys, email)
    IN /\ IF found = <<>>
          THEN /\ CliAnswer(op, "not found", "", email)
               /\ UNCHANGED users_file
          ELSE /\ users_file' = Put(users_file, found[1],
                                    [users_file[found[1]] EXCEPT !.is_active = flag])
               /\ CliAnswer(op, "done", found[1], email)
       /\ CliFrame

cli_deactivate_user(email) == cli_set_active("cli_deactivate_user", email, FALSE)

cli_activate_user(email) == cli_set_active("cli_activate_user", email, TRUE)

\* the per-user files the command removes are never written by the server
cli_delete_user(email) ==
    LET found == find_user_by_email(users_file, users_keys, email)
    IN /\ IF found = <<>>
          THEN /\ CliAnswer("cli_delete_user", "not found", "", email)
               /\ UNCHANGED users_file
          ELSE /\ users_file' = Del(users_file, found[1])
               /\ CliAnswer("cli_delete_user", "done", found[1], email)
       /\ CliFrame

CliOps == {"cli_deactivate_user", "cli_activate_user", "cli_delete_user"}

CliEmails == {"Alice@X.com", "nobody@x.com"}
CliCredentials == {<<" alice ", "Passw0rd!">>, <<"Alice", "wrong-pass">>}

CliTick == Tick(1, MaxTenancyTicks)
CliSignup == signup("Alice", "Alice@X.com", "Passw0rd!")
CliLogin == \E c \in CliCredentials : login(c[1], c[2])
CliMe == \E a \in HeldAuths : me(a)
CliDeactivateUser == \E e \in CliEmails : cli_deactivate_user(e)
CliActivateUser == \E e \in CliEmails : cli_activate_user(e)
CliDeleteUser == \E e \in CliEmails : cli_delete_user(e)

NextCli ==
    \/ CliTick
    \/ CliSignup
    \/ CliLogin
    \/ CliMe
    \/ CliDeactivateUser
    \/ CliActivateUser
    \/ CliDeleteUser
    \/ startup

SpecCli == InitNoFiles /\ [][NextCli]_vars


(***************************************************************************)
(* Properties of identity resolution and the category namespaces           *)
(***************************************************************************)
CategoryOps == {"get_categories", "get_category_colors", "add_category", "delete_category"}
TenantOps == CategoryOps \cup {"create_expense"}

\* the request just answered carried a bearer token this server signed and
\* that has not expired
ValidBearer(r) ==
    /\ starts_with_bearer(r.authorization)
    /\ r.authorization.token \in issued
    /\ jwt_decode_ok(r.authorization.token, now)

\* C1: a request with a valid bearer token of user A and an X-User-Id header
\* naming anything else is resolved to A, never to the header value and never
\* to the anonymous tenant.
C1_IdentityPrecedence ==
    /\ \A t \in issued, x \in XUserIdHeaders :
          jwt_decode_ok(t, now) => get_user_id(x, Auth("Bearer", t), now) = t.sub
    /\ (resp.op \in TenantOps /\ ValidBearer(resp))
          => /\ resp.uid = resp.authorization.token.sub
             /\ resp.uid # ANON_USER
             /\ resp.uid \in DOMAIN users_db
             /\ strip(resp.x_user_id.value) # resp.authorization.token.sub
                   => resp.uid # strip(resp.x_user_id.value)

C1_Witness ==
    /\ resp.op = "get_categories"
    /\ ValidBearer(resp)
    /\ resp.x_user_id = Some(" test-user-2 ")
    /\ resp.uid = "uuid-1"

\* C2: category requests performed as A leave the map of every other user id
\* and the legacy shared map unchanged.
C2_NamespaceIsolation ==
    [][resp'.op \in CategoryOps =>
          /\ \A k \in (DOMAIN categories_db) \ {resp'.uid} :
                k \in DOMAIN categories_db' /\ categories_db'[k] = categories_db[k]
          /\ (DOMAIN categories_db') \subseteq (DOMAIN categories_db) \cup {resp'.uid}
          /\ (LEGACY_KEY \in DOMAIN categories_db) = (LEGACY_KEY \in DOMAIN categories_db')
          /\ LEGACY_KEY \in DOMAIN categories_db
                => categories_db'[LEGACY_KEY] = categories_db[LEGACY_KEY]]_vars

\* C3: once a user id has an entry in categories_db (even an empty one) no
\* category request copies or merges the legacy map into it: a read returns
\* the entry as it stands and changes nothing, an add or delete changes at
\* most the one name it was asked to.
C3_MigrationOneWay ==
    [][(resp'.op \in CategoryOps /\ resp'.uid \in DOMAIN categories_db) =>
          LET u == resp'.uid
              before == categories_db[u]
          IN /\ ensure_user_category_init(categories_db, categories_file, u)
                    = <<categories_db, categories_file>>
             /\ u \in DOMAIN categories_db'
             /\ resp'.op \in {"get_categories", "get_category_colors"}
                    => categories_db' = categories_db /\ categories_file' = categories_file
             /\ resp'.op = "get_category_colors" => resp'.val = before
             /\ resp'.op = "get_categories"
                    => resp'.val = DEFAULT_CATEGORIES \cup DOMAIN before
                                      \cup used_categories(expenses_db, u)
             /\ resp'.op = "add_category"
                    => \/ categories_db'[u] = before
                       \/ /\ resp'.status = 200
                          /\ categories_db'[u] = Put(before, resp'.val[1], resp'.val[2])
             /\ resp'.op = "delete_category"
                    => categories_db'[u] \in {before, Del(before, resp'.arg)}]_vars

\* a user whose namespace was emptied reads it back empty although a
\* non-empty legacy map exists
C3_Witness ==
    /\ resp.op = "get_category_colors"
    /\ resp.uid # LEGACY_KEY
    /\ resp.val = EmptyMap
    /\ resp.uid \in DOMAIN categories_db
    /\ LEGACY_KEY \in DOMAIN categories_db
    /\ categories_db[LEGACY_KEY] # EmptyMap

\* a category request got past its argument checks and reached the user's map
TouchesMap(r) ==
    /\ r.op \in CategoryOps
    /\ ~(r.op = "add_category" /\ r.detail = "Category name is required")
    /\ ~(r.op = "delete_category" /\ r.detail = "Cannot delete default category")

\* C4: when u has no entry and a legacy map exists, any category endpoint that
\* reaches u's map first gives u a copy of the whole legacy map, persists
\* categories_db, and works on that copy; the legacy map itself is untouched.
C4_FirstAccessClone ==
    [][(/\ TouchesMap(resp')
        /\ resp'.uid \notin DOMAIN categories_db
        /\ LEGACY_KEY \in DOMAIN categories_db) =>
          LET u == resp'.uid
              legacy == categories_db[LEGACY_KEY]
          IN /\ get_user_custom_categories(
                    ensure_user_category_init(categories_db, categories_file, u)[1], u)
                  = legacy
             /\ u \in DOMAIN categories_db'
             /\ categories_db'[LEGACY_KEY] = legacy
             /\ categories_file' = dump_categories(categories_db')
             /\ load_categories(categories_file') = categories_db'
             /\ resp'.op = "get_category_colors"
                    => resp'.val = legacy /\ categories_db'[u] = legacy
             /\ resp'.op = "get_categories"
                    => categories_db'[u] = legacy /\ (DOMAIN legacy) \subseteq resp'.val
             /\ resp'.op = "add_category"
                    => categories_db'[u] =
                          IF resp'.status = 200
                          THEN Put(legacy, resp'.val[1], resp'.val[2]) ELSE legacy
             /\ resp'.op = "delete_category"
                    => categories_db'[u] =
                          IF resp'.arg \in DOMAIN legacy
                          THEN Del(legacy, resp'.arg) ELSE legacy]_vars

\* a first delete request of a user removed one name from its fresh clone
C4_Witness ==
    /\ resp.op = "delete_category"
    /\ resp.detail = "deleted for user"
    /\ resp.uid # LEGACY_KEY
    /\ LEGACY_KEY \in DOMAIN categories_db
    /\ resp.arg \in DOMAIN categories_db[LEGACY_KEY]
    /\ categories_db[resp.uid] = Del(categories_db[LEGACY_KEY], resp.arg)
    /\ categories_file = dump_categories(categories_db)


(***************************************************************************)
(* Properties of the password-reset flow                                   *)
(***************************************************************************)
\* reset_password ran (the body passed validation) and answered r
ResetCall(r) == r.op = "reset_password" /\ r.status # 422

\* C5: a reset token makes at most one reset_password call succeed: a success
\* removes it from PASSWORD_RESET_TOKENS, a removed token never comes back,
\* and a call with a token that is not in the store is answered
\* 400 "Invalid or expired token" and changes no password.
C5_ResetTokenSingleUse ==
    [][/\ \A t \in 1 .. n_resets :
             t \notin DOMAIN PASSWORD_RESET_TOKENS => t \notin DOMAIN PASSWORD_RESET_TOKENS'
       /\ (ResetCall(resp') /\ resp'.status = 200)
             => /\ resp'.arg \in DOMAIN PASSWORD_RESET_TOKENS
                /\ resp'.arg \notin DOMAIN PASSWORD_RESET_TOKENS'
       /\ (ResetCall(resp') /\ resp'.arg \notin DOMAIN PASSWORD_RESET_TOKENS)
             => /\ resp'.status = 400
                /\ resp'.detail = "Invalid or expired token"
                /\ users_db' = users_db
                /\ users_file' = users_file]_vars

\* the only token ever minted was used for a reset and is presented again
C5_Witness ==
    /\ n_resets = 1
    /\ resp.op = "reset_password"
    /\ resp.arg = 1
    /\ resp.status = 400
    /\ \E u \in DOMAIN users_db : users_db[u].password_hash = hash_password("newpass1")

\* C6: a reset_password call with an absent token, an expired token or a token
\* whose user is gone is answered 400 "Invalid or expired token", nothing else.
C6_ResetFailureIs400 ==
    [][(/\ ResetCall(resp')
        /\ \/ resp'.arg \notin DOMAIN PASSWORD_RESET_TOKENS
           \/ now > PASSWORD_RESET_TOKENS[resp'.arg].exp
           \/ PASSWORD_RESET_TOKENS[resp'.arg].user_id \notin DOMAIN users_db)
          => resp'.status = 400 /\ resp'.detail = "Invalid or expired token"]_vars

\* C7: a reset_password call that fails for a token that was in
\* PASSWORD_RESET_TOKENS leaves the store without that token.
C7_FailClosedDeletion ==
    [][(/\ ResetCall(resp')
        /\ resp'.status # 200
        /\ resp'.arg \in DOMAIN PASSWORD_RESET_TOKENS)
          => resp'.arg \notin DOMAIN PASSWORD_RESET_TOKENS']_vars

\* a call with a stored but expired token failed and the record is gone
C7_Witness ==
    /\ resp.op = "reset_password"
    /\ resp.status = 500
    /\ resp.arg \in 1 .. n_resets
    /\ resp.arg \notin DOMAIN PASSWORD_RESET_TOKENS

\* C8: a token is stored with expiry = issue time + 15 minutes, and once the
\* clock is past that expiry no reset_password call with it changes users_db,
\* whether the record is still in the store or already purged.
C8_ExpiredTokensInert ==
    [][/\ (resp'.op = "forgot_password" /\ n_resets' # n_resets)
             => PASSWORD_RESET_TOKENS'[n_resets'].exp = now + RESET_TOKEN_EXPIRE_MINUTES
       /\ (/\ resp'.op = "reset_password"
           /\ \/ resp'.arg \notin DOMAIN PASSWORD_RESET_TOKENS
              \/ now > PASSWORD_RESET_TOKENS[resp'.arg].exp)
             => /\ resp'.status # 200
                /\ users_db' = users_db
                /\ users_file' = users_file]_vars

\* an expired token was presented with an acceptable new password while its
\* user still exists with the old password
C8_Witness ==
    /\ resp.op = "reset_password"
    /\ resp.status = 500
    /\ resp.val = "newpass1"
    /\ n_resets = 1
    /\ "uuid-1" \in DOMAIN users_db
    /\ users_db["uuid-1"].password_hash = hash_password("Passw0rd!")

\* C9: forgot_password answers 200 with the same generic body whether or not
\* the email matches a user; it stores one new token, for the matching user,
\* exactly when the email matches, and never changes users_db.
C9_ForgotPasswordUniform ==
    [][resp'.op = "forgot_password" =>
          LET found == get_user_by_email(users_db, users_keys, resp'.arg)
              minted == (DOMAIN PASSWORD_RESET_TOKENS') \ DOMAIN PASSWORD_RESET_TOKENS
          IN /\ resp'.status = 200
             /\ resp'.detail = GENERIC_RESET_MESSAGE
             /\ resp'.token = NoToken /\ resp'.uid = "" /\ resp'.val = {}
             /\ users_db' = users_db /\ users_file' = users_file
             /\ users_keys' = users_keys
             /\ \A t \in DOMAIN PASSWORD_RESET_TOKENS :
                   /\ t \in DOMAIN PASSWORD_RESET_TOKENS'
                   /\ PASSWORD_RESET_TOKENS'[t] = PASSWORD_RESET_TOKENS[t]
             /\ found = <<>> => minted = {}
             /\ found # <<>>
                   => /\ Cardinality(minted) = 1
                      /\ \A t \in minted :
                            PASSWORD_RESET_TOKENS'[t].user_id = found[1]]_vars

\* after a token was minted for a registered email, an unregistered email is
\* answered
C9_Witness ==
    /\ resp.op = "forgot_password"
    /\ resp.arg = "nobody@x.com"
    /\ resp.status = 200
    /\ n_resets = 1
    /\ DOMAIN PASSWORD_RESET_TOKENS = {1}

(***************************************************************************)
(* Properties of the admin routes                                          *)
(***************************************************************************)
AdminOps == {"list_all_users", "get_admin_stats", "update_user", "deactivate_user",
             "activate_user", "delete_user"}

\* the Authorization header is missing or malformed, or its token is wrongly
\* signed, expired, or names no user of db
BadBearer(authorization, db, t) ==
    \/ ~authorization.present
    \/ lower(authorization.scheme) # "bearer"
    \/ authorization.token.sig # "ok"
    \/ authorization.token.exp < t
    \/ authorization.token.sub \notin DOMAIN db

\* C10: an /admin/* request without a usable bearer token is answered 401,
\* acts as nobody and leaves users_db unchanged.
C10_AdminFailsClosed ==
    [][(resp'.op \in AdminOps /\ BadBearer(resp'.authorization, users_db, now))
          => /\ resp'.status = 401
             /\ resp'.uid = ""
             /\ users_db' = users_db
             /\ users_keys' = users_keys
             /\ users_file' = users_file]_vars

\* the bootstrap admin's own token, expired, was used to delete an existing user
C10_Witness ==
    /\ resp.op = "delete_user"
    /\ resp.status = 401
    /\ resp.authorization.token.sig = "ok"
    /\ resp.authorization.token.sub = ADMIN_USER_ID
    /\ resp.authorization.token.exp < now
    /\ ADMIN_USER_ID \in DOMAIN users_db
    /\ resp.arg \in DOMAIN users_db

AdminChangeOps == {"update_user", "deactivate_user", "activate_user", "delete_user"}

\* the request carries a bearer token this server signed, not expired, whose
\* subject is a record of db
KnownBearer(authorization, db, t) ==
    /\ starts_with_bearer(authorization)
    /\ jwt_decode_ok(authorization.token, t)
    /\ authorization.token.sub \in DOMAIN db

\* C11: every change of users_db through update_user, activate_user,
\* deactivate_user or delete_user is made by an acting user who is_admin_user
\* accepts at the time of the request; a valid token of a non-admin is answered
\* 403 and an admin naming an unknown target is answered 404, both with
\* users_db unchanged.
C11_AdminAuthorization ==
    [][resp'.op \in AdminChangeOps =>
          LET authorization == resp'.authorization
              known == KnownBearer(authorization, users_db, now)
              actor == users_db[authorization.token.sub]
              same == /\ users_db' = users_db
                      /\ users_keys' = users_keys
                      /\ users_file' = users_file
          IN /\ ~same => (known /\ actor.is_active /\ is_admin_user(actor))
             /\ (known /\ ~is_admin_user(actor)) => (resp'.status = 403 /\ same)
             /\ (known /\ actor.is_active /\ is_admin_user(actor)
                   /\ resp'.arg \notin DOMAIN users_db)
                  => (resp'.status = 404 /\ same)]_vars

\* a signed-up user without admin rights asked to deactivate an existing account
C11_Witness ==
    /\ resp.op = "deactivate_user"
    /\ resp.status = 403
    /\ KnownBearer(resp.authorization, users_db, now)
    /\ users_db[resp.authorization.token.sub].is_active
    /\ ~is_admin_user(users_db[resp.authorization.token.sub])
    /\ resp.arg \in DOMAIN users_db

(***************************************************************************)
(* Properties of accounts: login, activation, uniqueness, ids              *)
(***************************************************************************)
\* the credentials <<username, password>> are the ones of record k of db
CredentialsOf(db, k, credentials) ==
    /\ db[k].username # MissingKey
    /\ lower(db[k].username) = strip(lower(credentials[1]))
    /\ verify_password(credentials[2], db[k].password_hash)

\* C12: a login with the correct username and password of a user whose
\* is_active is false is answered 403, hands out no token and leaves the
\* user's last_login as it was.
C12_DeactivatedLogin ==
    [][resp'.op = "login" =>
          \A k \in DOMAIN users_db :
              (~users_db[k].is_active /\ CredentialsOf(users_db, k, resp'.arg))
                  => /\ resp'.status = 403
                     /\ resp'.token = NoToken
                     /\ issued' = issued
                     /\ k \in DOMAIN users_db'
                     /\ users_db'[k].last_login = users_db[k].last_login]_vars

\* C13: while a record has is_active = FALSE, no login returns a token for it,
\* /auth/me and the /admin routes turn away every token whose subject it is,
\* and only an administrator's activation makes it active again.
C13_InactiveBlocksAuthentication ==
    [][\A k \in DOMAIN users_db :
          ~users_db[k].is_active =>
              /\ resp'.op = "login" => resp'.token.sub # k
              /\ (/\ resp'.op \in AdminOps \cup {"me"}
                  /\ starts_with_bearer(resp'.authorization)
                  /\ resp'.authorization.token.sub = k)
                    => resp'.status \in {401, 403}
              /\ (k \in DOMAIN users_db' /\ users_db'[k].is_active)
                    => (resp'.op \in {"activate_user", "update_user"}
                        /\ resp'.status = 200)]_vars

\* C14: a tenant request is resolved to the subject of its bearer token only
\* if the token is signed by this server, not expired, and its subject is the
\* id of a record of users_db that is active.
C14_TokenValidity ==
    [][(/\ resp'.op \in TenantOps
        /\ starts_with_bearer(resp'.authorization)
        /\ resp'.authorization.token.sub # ""
        /\ resp'.uid = resp'.authorization.token.sub)
          => /\ jwt_decode_ok(resp'.authorization.token, now)
             /\ resp'.authorization.token.sub \in DOMAIN users_db
             /\ users_db[resp'.authorization.token.sub].is_active]_vars

\* no two records of db have the same username or the same email, compared
\* case-insensitively
UniqueUsers(db) ==
    \A a, b \in DOMAIN db :
        a # b => /\ lower(db[a].username) # lower(db[b].username)
                 /\ lower(db[a].email) # lower(db[b].email)

\* signup was asked for a username or an email some record of db already has
Taken(db, username_in, email_in) ==
    \E k \in DOMAIN db :
        \/ lower(db[k].username) = strip(lower(username_in))
        \/ lower(db[k].email) = strip(lower(email_in))

\* C15: every step (signup, login, the reserved admin login, admin update and
\* delete) leaves users_db without two records of the same username or the
\* same email; a signup naming a taken username or email is answered 400 and
\* adds no record.
C15_Uniqueness ==
    [][/\ UniqueUsers(users_db')
       /\ (/\ resp'.op = "signup"
           /\ resp'.status # 422
           /\ Taken(users_db, resp'.arg[1], resp'.arg[2]))
            => /\ resp'.status = 400
               /\ users_db' = users_db
               /\ users_keys' = users_keys]_vars

\* C16: a successful signup creates one record and returns a token whose
\* subject is that record's id; get_user_id resolves the token to exactly that
\* id, whatever X-User-Id header comes with it.
C16_SignupTokenResolves ==
    [][(resp'.op = "signup" /\ resp'.status = 200) =>
          /\ (DOMAIN users_db') \ (DOMAIN users_db) = {resp'.token.sub}
          /\ users_db'[resp'.token.sub].id = resp'.token.sub
          /\ resp'.val = users_db'[resp'.token.sub]
          /\ \A h \in XUserIdHeaders :
                get_user_id(h, Auth("Bearer", resp'.token), now') = resp'.token.sub]_vars

\* a signup has just been answered with a token for the record it created
C16_Witness ==
    /\ resp.op = "signup"
    /\ resp.status = 200
    /\ resp.token \in issued
    /\ resp.token.sub \in DOMAIN users_db
    /\ users_db[resp.token.sub].created_at = now

\* C17: GET /auth/me with a token that signup or login returned for a user
\* who exists is answered 200 with that user's profile; without a usable
\* token it is answered 401; there is no other answer.
C17_MeOutcome ==
    [][resp'.op = "me" =>
          IF KnownBearer(resp'.authorization, users_db, now)
          THEN /\ resp'.status = 200
               /\ resp'.uid = resp'.authorization.token.sub
          ELSE resp'.status = 401]_vars

(***************************************************************************)
(* Properties of account deletion and of user ids                          *)
(***************************************************************************)
\* C18: once an admin has deleted user u, no expense of expenses_db has
\* user_id = u and categories_db has no entry keyed by u.
C18_DeleteCascade ==
    [][(resp'.op = "delete_user" /\ resp'.status = 200) =>
          /\ \A e \in SeqToSet(expenses_db') : e.user_id # resp'.arg
          /\ resp'.arg \notin DOMAIN categories_db']_vars

\* C19: the id of a record never changes, and a record created by a step gets
\* an id no earlier record had: in particular an id that is the subject of no
\* token handed out before, since tokens are only signed for ids of records.
C19_IdsNeverReused ==
    [][/\ \A k \in (DOMAIN users_db) \cap (DOMAIN users_db') :
             users_db'[k].id = users_db[k].id
       /\ \A k \in (DOMAIN users_db') \ (DOMAIN users_db) :
             /\ users_db'[k].id = k
             /\ \A t \in issued : t.sub # k]_vars

\* C20: a login with the username and the password of an existing active user
\* sets that user's last_login, saves users_db and returns a token whose
\* subject is the user's id; a login with a username no record has, or with
\* another password than the record's, is answered 401 and changes no record.
C20_LoginOutcome ==
    [][(resp'.op = "login" /\ resp'.status # 422) =>
          LET matches == { k \in DOMAIN users_db :
                             CredentialsOf(users_db, k, resp'.arg) }
          IN /\ \A k \in matches :
                   users_db[k].is_active
                     => /\ resp'.status = 200
                        /\ resp'.token = create_access_token(k, now)
                        /\ k \in DOMAIN users_db'
                        /\ users_db'[k].last_login = now
                        /\ users_file' = users_db'
             /\ matches = {}
                   => /\ resp'.status = 401
                      /\ resp'.token = NoToken
                      /\ users_db' = users_db
                      /\ users_keys' = users_keys
                      /\ users_file' = users_file]_vars

(***************************************************************************)
(* Properties of tokens, passwords and persistence                         *)
(***************************************************************************)
\* C21: signup and login sign tokens that expire ACCESS_TOKEN_EXPIRE_MINUTES
\* after the request; a signed token is accepted by get_current_user (the
\* /admin routes), me and get_user_id at every time up to its expiry, the
\* expiry included, and turned away at every later time.
C21_TokenLifetime ==
    [][/\ (resp'.op \in {"signup", "login"} /\ resp'.status = 200)
            => resp'.token.exp = now + ACCESS_TOKEN_EXPIRE_MINUTES
       /\ (/\ resp'.op \in AdminOps \cup {"me"}
           /\ starts_with_bearer(resp'.authorization)
           /\ resp'.authorization.token \in issued
           /\ resp'.authorization.token.sub \in DOMAIN users_db)
            => IF now <= resp'.authorization.token.exp
               THEN resp'.status # 401
               ELSE resp'.status = 401 /\ users_db' = users_db
       /\ \A t \in issued, h \in XUserIdHeaders :
             (get_user_id(h, Auth("Bearer", t), now) = t.sub) <=> (now <= t.exp)]_vars

\* an /admin route has just accepted a token in the very minute it expires
C21_Witness ==
    /\ resp.op = "list_all_users"
    /\ resp.status = 200
    /\ resp.authorization.token \in issued
    /\ resp.authorization.token.exp = now

\* C22: every password_hash in users_db was made by hash_password from a
\* plaintext of at most MAX_PASSWORD_LENGTH characters: signup, reset_password
\* and update_user turn a longer password away and store nothing.
C22_PasswordCap ==
    \A k \in DOMAIN users_db :
        /\ users_db[k].password_hash = hash_password(users_db[k].password_hash[2])
        /\ len(users_db[k].password_hash[2]) <= MAX_PASSWORD_LENGTH

\* C23: a request that changes users_db leaves users.json equal to users_db,
\* and a request that changes categories_db leaves categories.json equal to
\* the dump of categories_db.
C23_WriteThrough ==
    [][/\ users_db' # users_db => users_file' = users_db'
       /\ categories_db' # categories_db
            => categories_file' = dump_categories(categories_db')]_vars

\* C24: when save_users or save_categories raises during a request, the
\* request's change is afterwards in both the collection and its file, or in
\* neither.
C24_FailedWriteNoDivergence ==
    [][resp'.detail = "OSError" =>
          /\ \/ users_file' = users_db'
             \/ users_db' = users_db /\ users_file' = users_file
          /\ \/ categories_file' = dump_categories(categories_db')
             \/ categories_db' = categories_db /\ categories_file' = categories_file]_vars

(***************************************************************************)
(* Properties of the resolver's fallback chain                             *)
(***************************************************************************)
\* the Authorization header carries no bearer token that jwt.decode accepts at t
NoUsableBearer(authorization, t) ==
    ~(starts_with_bearer(authorization) /\ jwt_decode_ok(authorization.token, t))

\* the X-User-Id value as sent when it is non-empty, else the anonymous id
HeaderVerbatim(x_user_id) ==
    IF x_user_id.present /\ x_user_id.value # "" THEN x_user_id.value ELSE ANON_USER

\* the X-User-Id value without surrounding whitespace when that is non-empty,
\* else the anonymous id
HeaderStripped(x_user_id) ==
    IF x_user_id.present /\ strip(x_user_id.value) # ""
    THEN strip(x_user_id.value) ELSE ANON_USER

\* C25 as stated: without a usable bearer token get_user_id returns the
\* X-User-Id value verbatim if it is non-empty and public-anon-user otherwise;
\* the result is never empty and the request is never turned away.
C25_FallbackVerbatim ==
    [][/\ \A h \in XUserIdHeaders, a \in ClientAuths :
             NoUsableBearer(a, now) => get_user_id(h, a, now) = HeaderVerbatim(h)
       /\ (resp'.op \in TenantOps /\ NoUsableBearer(resp'.authorization, now))
            => /\ resp'.uid = HeaderVerbatim(resp'.x_user_id)
               /\ resp'.uid # ""
               /\ resp'.status \notin {401, 403}]_vars

\* C25 amended: without a usable bearer token get_user_id returns the
\* X-User-Id value stripped of surrounding whitespace if that is non-empty, with
\* no existence check, and public-anon-user otherwise; for every combination
\* of headers the result is a non-empty string and the request is never
\* turned away.
C25_FallbackChain ==
    [][/\ \A h \in XUserIdHeaders, a \in ClientAuths :
             /\ get_user_id(h, a, now) # ""
             /\ NoUsableBearer(a, now) => get_user_id(h, a, now) = HeaderStripped(h)
       /\ resp'.op \in TenantOps
            => /\ resp'.uid # ""
               /\ resp'.status \notin {401, 403}
               /\ NoUsableBearer(resp'.authorization, now)
                    => resp'.uid = HeaderStripped(resp'.x_user_id)]_vars

\* a request with an expired token of a registered user and an X-User-Id
\* header was served under the header's name, which no account has
C25_Witness ==
    /\ resp.op \in TenantOps
    /\ resp.authorization.token \in issued
    /\ resp.authorization.token.exp < now
    /\ resp.x_user_id = Some(" test-user-2 ")
    /\ resp.uid = "test-user-2"
    /\ resp.uid \notin DOMAIN users_db

(***************************************************************************)
(* Properties of concurrent reset tokens                                   *)
(***************************************************************************)
\* C26: forgot_password leaves every earlier token in the store as it was, a
\* reset_password call touches no token but the one presented, and a stored,
\* unexpired token of an existing user resets the password whatever happened
\* to the user's other tokens.
C26_EarlierTokensStayUsable ==
    [][/\ resp'.op = "forgot_password"
            => \A t \in DOMAIN PASSWORD_RESET_TOKENS :
                  /\ t \in DOMAIN PASSWORD_RESET_TOKENS'
                  /\ PASSWORD_RESET_TOKENS'[t] = PASSWORD_RESET_TOKENS[t]
       /\ resp'.op = "reset_password"
            => \A t \in (DOMAIN PASSWORD_RESET_TOKENS) \ {resp'.arg} :
                  /\ t \in DOMAIN PASSWORD_RESET_TOKENS'
                  /\ PASSWORD_RESET_TOKENS'[t] = PASSWORD_RESET_TOKENS[t]
       /\ (/\ ResetCall(resp')
           /\ resp'.arg \in DOMAIN PASSWORD_RESET_TOKENS
           /\ now <= PASSWORD_RESET_TOKENS[resp'.arg].exp
           /\ PASSWORD_RESET_TOKENS[resp'.arg].user_id \in DOMAIN users_db)
            => /\ resp'.status = 200
               /\ users_db'[resp'.uid].password_hash = hash_password(resp'.val)
               /\ resp'.uid = PASSWORD_RESET_TOKENS[resp'.arg].user_id]_vars

\* two tokens were minted for the same user before any time passed; the later
\* one was used for a reset, and now the earlier one has reset the password too
C26_Witness ==
    /\ resp.op = "reset_password"
    /\ resp.status = 200
    /\ resp.arg = 1
    /\ n_resets = 2
    /\ ticks = 0
    /\ PASSWORD_RESET_TOKENS = EmptyMap
    /\ resp.uid \in DOMAIN users_db

(***************************************************************************)
(* Properties of expense tenancy                                           *)
(***************************************************************************)
ExpenseOps == {"create_expense", "get_expenses", "get_expenses_by_month", "delete_expense"}

\* C27: an expense is stored under the identity resolved for the request that
\* creates it; get_expenses returns exactly the stored expenses of the
\* requester's identity (get_expenses_by_month: those of the month asked for);
\* delete_expense removes nothing but the expense that has both the given id
\* and the requester's identity.
C27_ExpenseTenancy ==
    [][resp'.op \in ExpenseOps =>
          LET uid == resp'.uid
              stored == SeqToSet(expenses_db)
              gone == stored \ SeqToSet(expenses_db')
              new == SeqToSet(expenses_db') \ stored
          IN /\ uid = get_user_id(resp'.x_user_id, resp'.authorization, now)
             /\ resp'.op = "create_expense"
                  => /\ \E e \in new : new = {e} /\ e.user_id = uid /\ e = resp'.val
                     /\ gone = {}
                     /\ expenses_file' = expenses_db'
             /\ resp'.op = "get_expenses"
                  => /\ SeqToSet(resp'.val) = { e \in stored : e.user_id = uid }
                     /\ Len(resp'.val) = Cardinality(SeqToSet(resp'.val))
                     /\ expenses_db' = expenses_db
             /\ resp'.op = "get_expenses_by_month"
                  => /\ SeqToSet(resp'.val) \subseteq { e \in stored : e.user_id = uid }
                     /\ \A e \in stored :
                           (e.user_id = uid /\ e.date = "2025-01-15" /\ resp'.arg = <<2025, 1>>)
                              => e \in SeqToSet(resp'.val)
                     /\ \A e \in SeqToSet(resp'.val) : e.date # "2025-02-03"
                     /\ expenses_db' = expenses_db
             /\ resp'.op = "delete_expense"
                  => /\ new = {}
                     /\ \A e \in gone : e.id = resp'.arg /\ e.user_id = uid
                     /\ \A e \in stored : (e.id = resp'.arg /\ e.user_id = uid) => e \in gone
                     /\ expenses_file' = expenses_db']_vars

\* a tenant asked to delete an expense that exists but belongs to another
\* tenant, and it is still there
C27_Witness ==
    /\ resp.op = "delete_expense"
    /\ \E e \in SeqToSet(expenses_db) : e.id = resp.arg /\ e.user_id # resp.uid

(***************************************************************************)
(* Properties of category deletion                                         *)
(***************************************************************************)
\* the custom map the category endpoints work on for tenant uid: its own
\* namespace, or on its first access the copy of the legacy map
CustomMap(db, uid) ==
    IF uid \in DOMAIN db THEN db[uid]
    ELSE IF LEGACY_KEY \in DOMAIN db THEN db[LEGACY_KEY]
    ELSE EmptyMap

\* namespaces of all tenants but uid
Others(db, uid) == [k \in (DOMAIN db) \ {uid} |-> db[k]]

\* DELETE /categories/{name} for a default category: 400, nothing changes
DeleteDefault ==
    (resp'.op = "delete_category" /\ resp'.arg \in DEFAULT_CATEGORIES)
        => /\ resp'.status = 400
           /\ UNCHANGED <<categories_db, categories_file, expenses_db, expenses_file>>

\* ... for a custom name: the name leaves the requester's map and exactly the
\* requester's expenses in that category go; GET /categories no longer has it
DeleteCustom ==
    (/\ resp'.op = "delete_category"
     /\ resp'.arg \notin DEFAULT_CATEGORIES
     /\ resp'.arg \in DOMAIN CustomMap(categories_db, resp'.uid))
        => /\ resp'.status = 200
           /\ categories_db'[resp'.uid] = Del(CustomMap(categories_db, resp'.uid), resp'.arg)
           /\ Others(categories_db', resp'.uid) = Others(categories_db, resp'.uid)
           /\ categories_file' = dump_categories(categories_db')
           /\ SeqToSet(expenses_db') =
                 { e \in SeqToSet(expenses_db) :
                     ~(e.user_id = resp'.uid /\ e.category = resp'.arg) }
           /\ Len(expenses_db') = Cardinality(SeqToSet(expenses_db'))
           /\ expenses_file' = expenses_db'
           /\ resp'.arg \notin all_categories(categories_db', expenses_db', resp'.uid)

\* C28 as stated: as above, and for a name that is not in the requester's
\* custom map the request changes nothing.
C28_CategoryDeletionChangesNothing ==
    [][/\ DeleteDefault
       /\ DeleteCustom
       /\ (/\ resp'.op = "delete_category"
           /\ resp'.arg \notin DEFAULT_CATEGORIES
           /\ resp'.arg \notin DOMAIN CustomMap(categories_db, resp'.uid))
            => UNCHANGED <<categories_db, categories_file, expenses_db,
                           expenses_file>>]_vars

\* C28 amended: as above, and for a name that is not in the requester's
\* custom map the request removes nothing: expenses and every tenant's custom
\* map stay as they are, the only change being the first-access copy of the
\* legacy map into the requester's namespace.
C28_CategoryDeletion ==
    [][/\ DeleteDefault
       /\ DeleteCustom
       /\ (/\ resp'.op = "delete_category"
           /\ resp'.arg \notin DEFAULT_CATEGORIES
           /\ resp'.arg \notin DOMAIN CustomMap(categories_db, resp'.uid))
            => /\ resp'.status = 200
               /\ UNCHANGED <<expenses_db, expenses_file>>
               /\ Others(categories_db', resp'.uid) = Others(categories_db, resp'.uid)
               /\ CustomMap(categories_db', resp'.uid) = CustomMap(categories_db, resp'.uid)
               /\ \/ UNCHANGED <<categories_db, categories_file>>
                  \/ /\ resp'.uid \notin DOMAIN categories_db
                     /\ LEGACY_KEY \in DOMAIN categories_db
                     /\ categories_file' = dump_categories(categories_db')]_vars

\* a tenant who had an expense in a custom category of its own deleted that
\* category: the expense went with it
C28_Witness ==
    /\ resp.op = "delete_category"
    /\ resp.arg = "Pets"
    /\ resp.detail = "deleted for user"
    /\ resp.val = 1
    /\ resp.uid \in DOMAIN categories_db
    /\ "Pets" \notin DOMAIN categories_db[resp.uid]
    /\ n_expenses = 1
    /\ expenses_db = <<>>

\* C29: get_user_id returns the reserved key __legacy__ for no combination of
\* headers, no tenant request is served under that key, and the legacy map
\* stays as load_categories made it.
C29_LegacyKeyIsNoTenant ==
    [][/\ LEGACY_KEY \in DOMAIN categories_db
            => /\ LEGACY_KEY \in DOMAIN categories_db'
               /\ categories_db'[LEGACY_KEY] = categories_db[LEGACY_KEY]
       /\ resp'.op \in TenantOps
            => /\ resp'.uid # LEGACY_KEY
               /\ \A h \in XUserIdHeaders, a \in ClientAuths :
                     get_user_id(h, a, now) # LEGACY_KEY]_vars

(***************************************************************************)
(* Properties of privilege                                                 *)
(***************************************************************************)
\* record k of db exists and is_admin_user accepts it
AdminIn(db, k) == k \in DOMAIN db /\ is_admin_user(db[k])

\* C30: a step makes a record administrative (creates it so, or turns it so)
\* only if it is the reserved admin login or carries the valid token of an
\* existing active admin; every record signup creates is non-administrative.
C30_NoSelfServicePrivilege ==
    [][/\ \A k \in DOMAIN users_db' :
             (AdminIn(users_db', k) /\ ~AdminIn(users_db, k))
                => \/ resp'.op = "login" /\ resp'.detail = "Admin login successful"
                   \/ /\ KnownBearer(resp'.authorization, users_db, now)
                      /\ users_db[resp'.authorization.token.sub].is_active
                      /\ is_admin_user(users_db[resp'.authorization.token.sub])
       /\ (resp'.op = "signup" /\ resp'.status = 200) => ~is_admin_user(resp'.val)]_vars

(***************************************************************************)
(* Properties of a refused administrative update                           *)
(***************************************************************************)
\* C31: an update_user request answered 400 (username or email already used
\* by another user) leaves the target's record in users_db as it was,
\* whichever fields the request supplied.
C31_FailedUpdateIsAtomic ==
    [][(resp'.op = "update_user" /\ resp'.status = 400)
          => /\ resp'.arg \in DOMAIN users_db'
             /\ users_db'[resp'.arg] = users_db[resp'.arg]]_vars

(***************************************************************************)
(* Properties of a restart                                                 *)
(***************************************************************************)
\* C32: every categories_db a request has changed is read back unchanged by
\* load_categories from what save_categories wrote (same user keys, same
\* maps, same legacy entry); a restart on that file therefore keeps each
\* namespace, and the migrator leaves every user who had one alone, so its
\* deletions stay.
C32_RestartRoundTrip ==
    [][/\ categories_db' # categories_db
            => load_categories(dump_categories(categories_db')) = categories_db'
       /\ (resp'.op = "startup" /\ categories_file = dump_categories(categories_db))
            => /\ categories_db' = categories_db
               /\ \A u \in DOMAIN categories_db :
                     ensure_user_category_init(categories_db', categories_file', u)
                        = <<categories_db, categories_file>>]_vars

\* a restart with a migrated user who had deleted a name of the legacy map
C32_Witness ==
    /\ resp.op = "startup"
    /\ LEGACY_KEY \in DOMAIN categories_db
    /\ categories_file = dump_categories(categories_db)
    /\ \E u \in DOMAIN categories_db \ {LEGACY_KEY} :
          /\ "Pets" \in DOMAIN categories_db[LEGACY_KEY]
          /\ "Pets" \notin DOMAIN categories_db[u]

(***************************************************************************)
(* Properties of the command line sharing users.json with the server       *)
(***************************************************************************)
\* C33: after admin_cli has deactivated or deleted a user while the server
\* runs, the server request that comes next does not log that user in, and
\* whatever it writes to users.json keeps the user inactive (or absent).
C33_CliChangeIsDurable ==
    [][(/\ resp.op \in {"cli_deactivate_user", "cli_delete_user"}
        /\ resp.detail = "done"
        /\ resp'.op \notin CliOps)
          => /\ resp'.op = "login" => ~(resp'.status = 200 /\ resp'.uid = resp.uid)
             /\ resp.op = "cli_deactivate_user"
                  => /\ resp.uid \in DOMAIN users_file'
                     /\ ~users_file'[resp.uid].is_active
             /\ resp.op = "cli_delete_user" => resp.uid \notin DOMAIN users_file']_vars

====
